---- MODULE Spec2Model ----
(***************************************************************************)
(* fix_frame_data.py: a one-shot migration script.  It walks a directory   *)
(* tree with os.walk, and on every file whose name ends with ".rs" runs    *)
(* fix_frame_data_in_file: read the file, apply eight re.sub substitutions *)
(* in list order, and rewrite the file in place (open(..., 'w') followed   *)
(* by write) when the result differs from what was read, then print one    *)
(* line.                                                                   *)
(*                                                                         *)
(* File contents, file names and log lines are strings.  The regular       *)
(* expressions of the pattern list are matched character by character.     *)
(***************************************************************************)
EXTENDS Integers, Sequences, FiniteSets, TLC

VARIABLES
    disk,         \* path -> content of the file on disk
    orig,         \* path -> content of the file when the program started
    pc,           \* the statement the program is at
    stack,        \* os.walk: directories still to be listed
    root,         \* loop variable of line 31: the directory just yielded
    files,        \* the part of `files` the loop of line 32 has not reached
    filepath,     \* line 34
    content,      \* line 6
    new_content,  \* line 21
    i,            \* position of the loop of line 22 in `patterns` (1-based)
    log,          \* standard output: the lines printed so far
    reads,        \* path -> number of times the file was opened and read
    writes,       \* path -> number of times the file was opened for writing
    exc,          \* the exception that ended the run, "none" while running
    unlisted,     \* directories whose listing failed inside os.walk
    run           \* which run of the script this is

vars == <<disk, orig, pc, stack, root, files, filepath, content, new_content,
          i, log, reads, writes, exc, unlisted, run>>

(***************************************************************************)
(* Bounds of the model.                                                    *)
(***************************************************************************)
\* number of fragments a generated content is concatenated from (SpecPass)
MaxFrags == 3
\* number of fragments the content of a file of the tree is made of (Spec)
MaxFileFrags == 1

(***************************************************************************)
(* Lines 9-19: the pattern list.  Every search expression of the list is a *)
(* literal `pre`, optionally followed by \s* and a second literal `post`;  *)
(* \( and \) are literal parentheses.  No replacement holds a backslash or *)
(* a group reference, so each is literal text.                             *)
(***************************************************************************)
Lit(pre, repl) == [pre |-> pre, ws |-> FALSE, post |-> "", repl |-> repl]

WsNone(pre, repl) == [pre |-> pre, ws |-> TRUE, post |-> "None,", repl |-> repl]

\* the list with a replacement that its own search expression still matches
patterns_selfmatch ==
    << Lit("video_data:", "render_data:"),
       WsNone("tally_data:", ""),
       WsNone("scene3d_data:", ""),
       WsNone("spatial_audio_data:", ""),
       WsNone("transform_data:", "control_data: None,"),
       Lit("Some(frame)", "Some(Some(frame))"),
       Lit("Some(video_frame)", "Some(RenderData::Raster2D(video_frame))"),
       Lit("Some(frame_data)", "Some(RenderData::Raster2D(frame_data))") >>

patterns ==
    << Lit("video_data:", "render_data:"),
       WsNone("tally_data:", ""),
       WsNone("scene3d_data:", ""),
       WsNone("spatial_audio_data:", ""),
       WsNone("transform_data:", "control_data: None,"),
       Lit("Some(frame)", "Some(RenderData::Raster2D(frame))"),
       Lit("Some(video_frame)", "Some(RenderData::Raster2D(video_frame))"),
       Lit("Some(frame_data)", "Some(RenderData::Raster2D(frame_data))") >>

(***************************************************************************)
(* re.sub(pattern, replacement, string), line 23.                          *)
(***************************************************************************)
\* the characters \s matches
IsSpace(ch) == ch \in {" ", "\t", "\n", "\r", "\f"}

\* the literal lit occurs in s at position k
LitAt(s, k, lit) ==
    /\ k + Len(lit) - 1 <= Len(s)
    /\ SubSeq(s, k, k + Len(lit) - 1) = lit

\* the first position from k on that holds no whitespace
RECURSIVE SkipSpace(_, _)
SkipSpace(s, k) ==
    IF k <= Len(s) /\ IsSpace(SubSeq(s, k, k)) THEN SkipSpace(s, k + 1) ELSE k

\* The position after the match of p that starts at k, 0 when p does not match
\* at k.  \s* is greedy and gives characters back until the rest matches.
MatchEnd(p, s, k) ==
    IF ~LitAt(s, k, p.pre) THEN 0
    ELSE LET j    == k + Len(p.pre)
             far  == IF p.ws THEN SkipSpace(s, j) ELSE j
             ends == {m \in j..far : LitAt(s, m, p.post)}
         IN  IF ends = {} THEN 0
             ELSE (CHOOSE m \in ends : \A n \in ends : n <= m) + Len(p.post)

\* s from position k on, every non-overlapping match replaced, left to right:
\* the scan copies the text up to the leftmost match, puts the replacement,
\* and resumes right after the match (no search expression matches the empty
\* string).
RECURSIVE SubFrom(_, _, _)
SubFrom(p, s, k) ==
    LET starts == {m \in k..Len(s) : MatchEnd(p, s, m) # 0}
    IN  IF starts = {} THEN SubSeq(s, k, Len(s))
        ELSE LET m == CHOOSE a \in starts : \A b \in starts : a <= b
             IN  SubSeq(s, k, m - 1) \o p.repl \o SubFrom(p, s, MatchEnd(p, s, m))

re_sub(p, s) == SubFrom(p, s, 1)

(***************************************************************************)
(* The migration pass as a function of the content: the patterns applied   *)
(* in list order, each to the result of the one before.                    *)
(***************************************************************************)
RECURSIVE ApplyFirst(_, _)
ApplyFirst(n, c) ==
    IF n = 0 THEN c ELSE re_sub(patterns[n], ApplyFirst(n - 1, c))

Pass(c) == ApplyFirst(Len(patterns), c)

\* the patterns applied in the opposite order, last to first
RECURSIVE ApplyLast(_, _)
ApplyLast(n, c) ==
    IF n > Len(patterns) THEN c ELSE re_sub(patterns[n], ApplyLast(n + 1, c))

\* a pattern whose replacement is empty matches during the pass over c
Deletes(c) ==
    \E n \in 1..Len(patterns) :
        /\ patterns[n].repl = ""
        /\ ApplyFirst(n, c) # ApplyFirst(n - 1, c)

(***************************************************************************)
(* The tree under the root of line 31.                                     *)
(***************************************************************************)
Top == "/Users/mirabilis/dev/ConstellationStudio/crates/constellation-nodes/src"

\* os.path.join, line 34 (and inside os.walk)
Join(a, b) == a \o "/" \o b

SubDir == Join(Top, "sub")

OtherDir == Join(Top, "other")

Dirs == {Top, SubDir, OtherDir}

FileNames(d) ==
    CASE d = Top      -> {"a.rs", "lib.rs.bak"}
      [] d = SubDir   -> {"b.rs"}
      [] d = OtherDir -> {"c.rs"}

DirNames(d) == IF d = Top THEN {"sub", "other"} ELSE {}

Paths == UNION {{Join(d, f) : f \in FileNames(d)} : d \in Dirs}

\* str.endswith
EndsWith(name, suffix) ==
    /\ Len(name) >= Len(suffix)
    /\ SubSeq(name, Len(name) - Len(suffix) + 1, Len(name)) = suffix

EndsWithRs(file) == EndsWith(file, ".rs")

\* a filter that looks for '.rs' anywhere in the name
Matches_anywhere(file) == \E k \in 1..Len(file) : LitAt(file, k, ".rs")

\* line 33: the filter of the loop
Matches(file) == EndsWith(file, ".rs")

\* the base name of a path of the tree
BaseName(p) == CHOOSE f \in UNION {FileNames(d) : d \in Dirs} :
                   \E d \in Dirs : p = Join(d, f)

Candidates == {p \in Paths : EndsWithRs(BaseName(p))}

\* the directory a path of the tree lies in
DirOf(p) == CHOOSE d \in Dirs : \E f \in FileNames(d) : p = Join(d, f)

\* the directories whose listing os.walk needs to reach d
Ancestors(d) == IF d = Top THEN {Top} ELSE {Top, d}

\* the orders a directory listing can come in
Orders(S) ==
    {s \in [1..Cardinality(S) -> S] :
        \A a, b \in 1..Cardinality(S) : a # b => s[a] # s[b]}

\* line 28
LogLine(p) == "Fixed patterns in " \o p

(***************************************************************************)
(* Contents the files start with.                                          *)
(***************************************************************************)
RECURSIVE Concats(_, _)
Concats(frags, n) ==
    IF n = 0 THEN {""}
    ELSE LET shorter == Concats(frags, n - 1)
         IN  shorter \cup {s \o f : s \in shorter, f \in frags}

Frags ==
    { "video_data:", "tally_data:", " None,", "tally_data: None,",
      "scene3d_data:\nNone,", "spatial_audio_data:None,", "transform_data:",
      "Some(frame)", "Some(video_frame)", "Some(frame_data)" }

Inputs == Concats(Frags, MaxFrags)

FileFrags == {"video_data:", "fn"}

FileContents == Concats(FileFrags, MaxFileFrags)

OtherContents == {"", "video_data:"}

\* the one file SpecPass runs fix_frame_data_in_file on
OneFile == Join(Top, "a.rs")

(***************************************************************************)
(* The state when the script starts.                                       *)
(***************************************************************************)
Init ==
    /\ disk \in {d \in [Paths -> FileContents] :
                    \A p \in Paths \ Candidates : d[p] \in OtherContents}
    /\ orig = disk
    /\ pc = "walk"
    /\ stack = <<Top>>
    /\ root = ""
    /\ files = <<>>
    /\ filepath = ""
    /\ content = ""
    /\ new_content = ""
    /\ i = 0
    /\ log = <<>>
    /\ reads = [p \in Paths |-> 0]
    /\ writes = [p \in Paths |-> 0]
    /\ exc = "none"
    /\ unlisted = {}
    /\ run = 1

(***************************************************************************)
(* Line 31: os.walk(top), top-down, onerror=None.  A directory is listed   *)
(* when the loop asks for the next item; a directory whose listing raises  *)
(* OSError is dropped without a word (no onerror callback is given) and    *)
(* the walk goes on with the next one.                                     *)
(***************************************************************************)
\* a walk that does not descend into the subdirectories
ListDir_flat ==
    /\ pc = "walk"
    /\ stack # <<>>
    /\ \E fs \in Orders(FileNames(Head(stack))) :
          /\ root' = Head(stack)
          /\ files' = fs
    /\ stack' = Tail(stack)
    /\ pc' = "for_file"
    /\ UNCHANGED <<disk, orig, filepath, content, new_content, i, log, reads,
                   writes, exc, unlisted, run>>

ListDir ==
    /\ pc = "walk"
    /\ stack # <<>>
    /\ \E fs \in Orders(FileNames(Head(stack))),
          ds \in Orders(DirNames(Head(stack))) :
          /\ root' = Head(stack)
          /\ files' = fs
          /\ stack' = [k \in 1..Len(ds) |-> Join(Head(stack), ds[k])]
                          \o Tail(stack)
    /\ pc' = "for_file"
    /\ UNCHANGED <<disk, orig, filepath, content, new_content, i, log, reads,
                   writes, exc, unlisted, run>>

\* a walk in which the failure to list a directory is raised to the caller
ListDirError_raises ==
    /\ pc = "walk"
    /\ stack # <<>>
    /\ unlisted' = unlisted \cup {Head(stack)}
    /\ exc' = "TraversalError"
    /\ pc' = "aborted"
    /\ UNCHANGED <<disk, orig, stack, root, files, filepath, content,
                   new_content, i, log, reads, writes, run>>

ListDirError ==
    /\ pc = "walk"
    /\ stack # <<>>
    /\ unlisted' = unlisted \cup {Head(stack)}
    /\ stack' = Tail(stack)
    /\ UNCHANGED <<disk, orig, pc, root, files, filepath, content,
                   new_content, i, log, reads, writes, exc, run>>

\* os.walk is exhausted: the script ends
WalkEnd ==
    /\ pc = "walk"
    /\ stack = <<>>
    /\ pc' = "done"
    /\ UNCHANGED <<disk, orig, stack, root, files, filepath, content,
                   new_content, i, log, reads, writes, exc, unlisted, run>>

(***************************************************************************)
(* Lines 32-35: the loop over the files of the directory.                  *)
(***************************************************************************)
\* line 33 is false: the file is passed over
SkipFile ==
    /\ pc = "for_file"
    /\ files # <<>>
    /\ ~Matches(Head(files))
    /\ files' = Tail(files)
    /\ UNCHANGED <<disk, orig, pc, stack, root, filepath, content,
                   new_content, i, log, reads, writes, exc, unlisted, run>>

\* lines 33-35: the file matches, fix_frame_data_in_file is called on it
CallFix ==
    /\ pc = "for_file"
    /\ files # <<>>
    /\ Matches(Head(files))
    /\ filepath' = Join(root, Head(files))
    /\ files' = Tail(files)
    /\ pc' = "read"
    /\ UNCHANGED <<disk, orig, stack, root, content, new_content, i, log,
                   reads, writes, exc, unlisted, run>>

\* the loop of line 32 ends: back into os.walk
FilesEnd ==
    /\ pc = "for_file"
    /\ files = <<>>
    /\ pc' = "walk"
    /\ UNCHANGED <<disk, orig, stack, root, files, filepath, content,
                   new_content, i, log, reads, writes, exc, unlisted, run>>

(***************************************************************************)
(* Lines 4-28: fix_frame_data_in_file(filepath).                           *)
(***************************************************************************)
\* lines 5-6 and 21
ReadFile ==
    /\ pc = "read"
    /\ content' = disk[filepath]
    /\ new_content' = disk[filepath]
    /\ i' = 1
    /\ reads' = [reads EXCEPT ![filepath] = @ + 1]
    /\ pc' = "sub"
    /\ UNCHANGED <<disk, orig, stack, root, files, filepath, log, writes,
                   exc, unlisted, run>>

\* the failure is swallowed and the loop goes on with the next file
ReadError_caught ==
    /\ pc = "read"
    /\ exc' = "ReadError"
    /\ pc' = "for_file"
    /\ UNCHANGED <<disk, orig, stack, root, files, filepath, content,
                   new_content, i, log, reads, writes, unlisted, run>>

\* lines 5-6: open or read raises; nothing catches it
ReadError ==
    /\ pc = "read"
    /\ exc' = "ReadError"
    /\ pc' = "aborted"
    /\ UNCHANGED <<disk, orig, stack, root, files, filepath, content,
                   new_content, i, log, reads, writes, unlisted, run>>

\* the substitution made on the content read instead of the running result
LoopBody_on_content(k, c, nc) == re_sub(patterns[k], c)

\* line 23, the body of the loop of line 22
LoopBody(k, c, nc) == re_sub(patterns[k], nc)

\* lines 22-23: one turn of the loop
ApplyPattern ==
    /\ pc = "sub"
    /\ i <= Len(patterns)
    /\ new_content' = LoopBody(i, content, new_content)
    /\ i' = i + 1
    /\ UNCHANGED <<disk, orig, pc, stack, root, files, filepath, content,
                   log, reads, writes, exc, unlisted, run>>

\* the file is rewritten without the comparison
Differs_always(nc, c) == TRUE

\* line 25
Differs(nc, c) == nc # c

\* line 25 is true
CompareChanged ==
    /\ pc = "sub"
    /\ i > Len(patterns)
    /\ Differs(new_content, content)
    /\ pc' = "open_w"
    /\ UNCHANGED <<disk, orig, stack, root, files, filepath, content,
                   new_content, i, log, reads, writes, exc, unlisted, run>>

\* line 25 is false: the function returns
CompareSame ==
    /\ pc = "sub"
    /\ i > Len(patterns)
    /\ ~Differs(new_content, content)
    /\ content' = ""
    /\ new_content' = ""
    /\ i' = 0
    /\ pc' = "for_file"
    /\ UNCHANGED <<disk, orig, stack, root, files, filepath, log, reads,
                   writes, exc, unlisted, run>>

\* line 26: open(filepath, 'w') truncates the file
OpenWrite ==
    /\ pc = "open_w"
    /\ disk' = [disk EXCEPT ![filepath] = ""]
    /\ writes' = [writes EXCEPT ![filepath] = @ + 1]
    /\ pc' = "write"
    /\ UNCHANGED <<orig, stack, root, files, filepath, content, new_content,
                   i, log, reads, exc, unlisted, run>>

\* line 26: open raises before it truncates
OpenWriteError ==
    /\ pc = "open_w"
    /\ exc' = "WriteError"
    /\ pc' = "aborted"
    /\ UNCHANGED <<disk, orig, stack, root, files, filepath, content,
                   new_content, i, log, reads, writes, unlisted, run>>

\* the content read is written back instead of the new content
WriteFile_original ==
    /\ pc = "write"
    /\ disk' = [disk EXCEPT ![filepath] = content]
    /\ pc' = "print"
    /\ UNCHANGED <<orig, stack, root, files, filepath, content, new_content,
                   i, log, reads, writes, exc, unlisted, run>>

\* line 27 and the close at the end of the with block
WriteFile ==
    /\ pc = "write"
    /\ disk' = [disk EXCEPT ![filepath] = new_content]
    /\ pc' = "print"
    /\ UNCHANGED <<orig, stack, root, files, filepath, content, new_content,
                   i, log, reads, writes, exc, unlisted, run>>

\* line 27: write or close raises after part of the text reached the file
WriteError ==
    /\ pc = "write"
    /\ \E k \in 0..(Len(new_content) - 1) :
          disk' = [disk EXCEPT ![filepath] = SubSeq(new_content, 1, k)]
    /\ exc' = "WriteError"
    /\ pc' = "aborted"
    /\ UNCHANGED <<orig, stack, root, files, filepath, content, new_content,
                   i, log, reads, writes, unlisted, run>>

\* only the first rewritten file is reported
PrintFixed_once ==
    /\ pc = "print"
    /\ log' = IF log = <<>> THEN <<LogLine(filepath)>> ELSE log
    /\ content' = ""
    /\ new_content' = ""
    /\ i' = 0
    /\ pc' = "for_file"
    /\ UNCHANGED <<disk, orig, stack, root, files, filepath, reads, writes,
                   exc, unlisted, run>>

\* line 28, and the function returns
PrintFixed ==
    /\ pc = "print"
    /\ log' = Append(log, LogLine(filepath))
    /\ content' = ""
    /\ new_content' = ""
    /\ i' = 0
    /\ pc' = "for_file"
    /\ UNCHANGED <<disk, orig, stack, root, files, filepath, reads, writes,
                   exc, unlisted, run>>

Next ==
    \/ ListDir
    \/ ListDirError
    \/ WalkEnd
    \/ SkipFile
    \/ CallFix
    \/ FilesEnd
    \/ ReadFile
    \/ ReadError
    \/ ApplyPattern
    \/ CompareChanged
    \/ CompareSame
    \/ OpenWrite
    \/ OpenWriteError
    \/ WriteFile
    \/ WriteError
    \/ PrintFixed

Spec == Init /\ [][Next]_vars

\* the script is one sequential process: it takes its next step whenever it
\* has one
FairSpec == Spec /\ WF_vars(Next)

(***************************************************************************)
(* fix_frame_data_in_file on one file, in two runs of the script one after *)
(* the other with no I/O failure, over a larger set of contents.  The      *)
(* state starts at line 21 of the first run.                               *)
(***************************************************************************)
PassInit ==
    /\ \E c \in Inputs :
          /\ disk = [p \in Paths |-> IF p = OneFile THEN c ELSE ""]
          /\ content = c
          /\ new_content = c
    /\ orig = disk
    /\ pc = "sub"
    /\ stack = <<>>
    /\ root = Top
    /\ files = <<>>
    /\ filepath = OneFile
    /\ i = 1
    /\ log = <<>>
    /\ reads = [p \in Paths |-> IF p = OneFile THEN 1 ELSE 0]
    /\ writes = [p \in Paths |-> 0]
    /\ exc = "none"
    /\ unlisted = {}
    /\ run = 1

\* Lines 25-28 of the first run, then the second run up to line 21 on the
\* same file: it reads what the first run left on disk.
RunAgain ==
    /\ pc = "sub"
    /\ run = 1
    /\ i > Len(patterns)
    /\ disk' = [disk EXCEPT ![filepath] =
                   IF Differs(new_content, content) THEN new_content ELSE @]
    /\ writes' = [writes EXCEPT ![filepath] =
                   IF Differs(new_content, content) THEN @ + 1 ELSE @]
    /\ log' = IF Differs(new_content, content)
              THEN Append(log, LogLine(filepath)) ELSE log
    /\ reads' = [reads EXCEPT ![filepath] = @ + 1]
    /\ content' = disk'[filepath]
    /\ new_content' = disk'[filepath]
    /\ i' = 1
    /\ run' = 2
    /\ UNCHANGED <<orig, pc, stack, root, files, filepath, exc, unlisted>>

PassNext ==
    \/ ApplyPattern
    \/ RunAgain

SpecPass == PassInit /\ [][PassNext]_vars

(***************************************************************************)
(* Properties.                                                             *)
(***************************************************************************)
\* the statements inside fix_frame_data_in_file
InFunction == {"read", "sub", "open_w", "write", "print"}

\* how many of the printed lines name p
LogCount(p) == Cardinality({k \in 1..Len(log) : log[k] = LogLine(p)})

\* os.walk lists the directory of p: no directory on the way to it failed
Reached(p) == Ancestors(DirOf(p)) \cap unlisted = {}

\* C1: at every turn of the loop of line 22 new_content is the first i-1
\* patterns applied in list order, each once, to the result of the one before,
\* starting from the content read; after the loop it is the whole list applied
\* in that order.
C1_AppliedInListOrder ==
    pc = "sub" =>
        /\ i \in 1..(Len(patterns) + 1)
        /\ new_content = ApplyFirst(i - 1, content)

\* the loop has ended on a content for which the opposite order gives another
\* result
C1_OrderMatters ==
    /\ pc = "sub"
    /\ run = 1
    /\ i > Len(patterns)
    /\ new_content # content
    /\ new_content # ApplyLast(1, content)

\* C2: when the run has completed, every .rs file that was read and whose
\* transformed content differs from what it held is on disk with the
\* transformed content, and exactly one printed line names it.
C2_ChangedFileRewritten ==
    pc = "done" =>
        \A p \in Candidates :
            (reads[p] > 0 /\ Pass(orig[p]) # orig[p]) =>
                /\ disk[p] = Pass(orig[p])
                /\ LogCount(p) = 1

C2_RewrittenReached ==
    /\ pc = "done"
    /\ \E p \in Candidates : reads[p] > 0 /\ Pass(orig[p]) # orig[p]

\* C3: a .rs file whose content the pass leaves as it is, is never opened for
\* writing, keeps its content in every state, and no printed line names it.
C3_UnchangedFileUntouched ==
    \A p \in Candidates :
        Pass(orig[p]) = orig[p] =>
            /\ writes[p] = 0
            /\ disk[p] = orig[p]
            /\ LogCount(p) = 0

\* the run has completed after reading an empty file and a file that holds
\* none of the search expressions
C3_UntouchedReached ==
    /\ pc = "done"
    /\ \E p, q \in Candidates :
          /\ reads[p] = 1 /\ orig[p] = ""
          /\ reads[q] = 1 /\ orig[q] = "fn"

\* C4: a file whose name does not end with ".rs" is never passed to
\* fix_frame_data_in_file, never read or opened for writing, keeps its content
\* in every state, and no printed line names it, whatever it holds.
C4_NonMatchingIgnored ==
    \A p \in Paths \ Candidates :
        /\ filepath # p
        /\ reads[p] = 0
        /\ writes[p] = 0
        /\ disk[p] = orig[p]
        /\ LogCount(p) = 0

\* the run has completed over a listed directory that holds a non-matching
\* file with a search expression in it
C4_IgnoredReached ==
    /\ pc = "done"
    /\ Top \notin unlisted
    /\ orig[Join(Top, "lib.rs.bak")] = "video_data:"
    /\ log # <<>>

\* C5: a failure to read or write a file ends the run at once: from then on
\* nothing is read, written or printed, the files not yet visited hold their
\* original content and the files rewritten before hold their new content.
C5_AbortOnReadOrWriteError ==
    [][ /\ exc' # "none" => pc' = "aborted"
        /\ exc # "none" => UNCHANGED <<disk, reads, writes, log, pc>>
        /\ exc' # "none" =>
              \A p \in Paths :
                 /\ reads'[p] = 0 => disk'[p] = orig'[p]
                 /\ (writes'[p] > 0 /\ p # filepath') =>
                        disk'[p] = Pass(orig'[p]) ]_vars

\* the run was ended by a failure after one file was rewritten and before
\* another was visited
C5_AbortedReached ==
    /\ exc \in {"ReadError", "WriteError"}
    /\ \E p, q \in Candidates :
          /\ p # filepath
          /\ writes[p] = 1 /\ disk[p] # orig[p]
          /\ reads[q] = 0

C7_SecondRunNoOp ==
    (pc = "sub" /\ run = 2 /\ i > Len(patterns)) => new_content = content

\* C7 amended: the pass of the second run changes nothing when no pattern with
\* an empty replacement matched during the first run.
C7_SecondRunNoOpUnlessDeleted ==
    (pc = "sub" /\ run = 2 /\ i > Len(patterns) /\ ~Deletes(orig[filepath]))
        => new_content = content

\* the second pass has ended on a file the first run rewrote without deleting
\* anything
C7_SecondRunReached ==
    /\ pc = "sub"
    /\ run = 2
    /\ i > Len(patterns)
    /\ ~Deletes(orig[filepath])
    /\ disk[filepath] # orig[filepath]

\* C8: in every state each .rs file holds its original content or its fully
\* transformed content.
C8_NoPartialWrites ==
    \A p \in Candidates : disk[p] \in {orig[p], Pass(orig[p])}

\* C9: when the run has completed, what each file holds and which lines were
\* printed are determined by the original contents and the directories that
\* could be listed, whatever the order the listings came in.
C9_OrderIrrelevant ==
    pc = "done" =>
        /\ \A p \in Paths :
              disk[p] = IF p \in Candidates /\ Reached(p)
                        THEN Pass(orig[p]) ELSE orig[p]
        /\ {log[k] : k \in 1..Len(log)} =
              {LogLine(p) : p \in {q \in Candidates :
                                      Reached(q) /\ Pass(orig[q]) # orig[q]}}
        /\ \A p \in Paths : LogCount(p) <= 1

\* the run has completed having rewritten the file of `other` before the file
\* of `sub`
C9_OtherOrderReached ==
    /\ pc = "done"
    /\ Len(log) = 3
    /\ log[2] = LogLine(Join(OtherDir, "c.rs"))
    /\ log[3] = LogLine(Join(SubDir, "b.rs"))

\* C10: a run with no I/O error reaches the end of the script; by then every
\* .rs file has been read exactly once and opened for writing at most once;
\* and whenever the run is not inside the call on a file it has read, that
\* file is completely processed.
C10_TerminatesAfterFullTraversal ==
    /\ <>(pc = "done" \/ exc # "none" \/ unlisted # {})
    /\ [](\A p \in Paths : reads[p] <= 1 /\ writes[p] <= reads[p])
    /\ []((pc = "done" /\ unlisted = {}) =>
             \A p \in Candidates : reads[p] = 1)
    /\ [](exc = "none" =>
             \A p \in Candidates :
                 (reads[p] > 0 /\ ~(p = filepath /\ pc \in InFunction)) =>
                     disk[p] = Pass(orig[p]))

\* the run has completed with no I/O error, every .rs file rewritten
C10_CompletedReached ==
    /\ pc = "done"
    /\ exc = "none"
    /\ unlisted = {}
    /\ \A p \in Candidates : reads[p] = 1 /\ writes[p] = 1

====
